---- MODULE Spec2Model ----
(***************************************************************************)
(* Model of drf_rior: RIORGenericViewSet (generics.py), the configuration  *)
(* record SerializerActionViewGroup (utils.py), ClassDefinitionError       *)
(* (exceptions.py) and RequestResponseAutoSchema (schema.py).              *)
(*                                                                         *)
(* A view class is declared once (Init chooses its class attributes), an   *)
(* instance is constructed (Construct), the framework binds the current    *)
(* action while initialising a request (InitializeRequest), and then the   *)
(* role getters, the schema hooks and finalize_response are called in any  *)
(* order, any number of times.                                             *)
(***************************************************************************)
EXTENDS Integers, Sequences, FiniteSets, TLC

\* Number of distinct serializer classes (data-shape definitions) in play.
NumShapes == 2

\* Number of distinct raw requests the framework hands to initialize_request.
NumRaw == 1

\* Python's None, for a serializer-class reference.
None == 0

\* Serializer classes are numbered 1..NumShapes; a class object is truthy.
Shapes == 1..NumShapes

OptionalShapes == Shapes \cup {None}

\* The class-level serializer_class, when the class declares one. Shapes are
\* interchangeable, so the class-level one is taken to be the last; the
\* records range over all shapes, this one included.
FallbackShape == NumShapes

\* Python's None as the view's current action (no handler for the method).
NoneAction == "None"

\* The view has not been bound to an action yet (attribute not set).
Unbound == "<unbound>"

ActionNames == {"create", "list"}

Actions == ActionNames \cup {NoneAction}

\* The four optional roles of a configuration record, and all five roles.
OptionalRoles == {"request", "input", "output", "response"}

Roles == OptionalRoles \cup {"default"}

\* SerializerActionViewGroup: default is required, the other fields default
\* to None.
SerializerActionViewGroup ==
    [default : Shapes, request : OptionalShapes, input : OptionalShapes,
     output : OptionalShapes, response : OptionalShapes]

\* The values a dict[str, SerializerActionViewGroup] class attribute takes:
\* the empty dict and the dicts with one configured action.
EmptyDict == [a \in {} |-> None]

Dicts ==
    {EmptyDict} \cup
    UNION {[{a} -> SerializerActionViewGroup] : a \in ActionNames}

\* What the class declares as action_serializer_group: nothing (only the
\* annotation), None, a non-dict object, or a dict.
GroupAttrs ==
    {[type |-> t, items |-> EmptyDict] : t \in {"unset", "NoneType", "list"}}
    \cup {[type |-> "dict", items |-> d] : d \in Dicts}

VARIABLES
    action_serializer_group,  \* class attribute, see GroupAttrs
    serializer_class,         \* class attribute, a shape or None
    phase,                    \* "class" | "constructed" | "raised"
    super_init,               \* TRUE once GenericViewSet.__init__ has run
    error,                    \* what the constructor raised, or NoError
    action,                   \* the view's current action
    last,                     \* the last call made on the view and its outcome
    probe                     \* one earlier role resolution, kept for comparison

vars == <<action_serializer_group, serializer_class, phase, super_init,
          error, action, last, probe>>

config == <<action_serializer_group, serializer_class>>

----------------------------------------------------------------------------
\* Outcomes of a call: a returned value or a raised exception.

Return(v) == [kind |-> "return", exc |-> "", value |-> v]

Raise(e) == [kind |-> "raise", exc |-> e, value |-> None]

\* Python's getattr(obj, name, dflt): the default is used only when the
\* object has no attribute of that name.
getattr(obj, name, dflt) == IF name \in DOMAIN obj THEN obj[name] ELSE dflt

\* ClassDefinitionError(message): carries the message and the call site.
ClassDefinitionError(message) ==
    [type |-> "ClassDefinitionError", message |-> message,
     caller |-> "__init__"]

NoError == [type |-> "", message |-> "", caller |-> ""]

\* Variant: the serializer_class check is left out.
ViewSetInit_no_serializer_check(asg, sc) ==
    IF asg.type \in {"unset", "NoneType"}
    THEN [error |-> ClassDefinitionError("action_serializer_group must be declared."),
          super_init |-> FALSE]
    ELSE IF asg.type # "dict"
    THEN [error |-> ClassDefinitionError("action_serializer_group must be a dict."),
          super_init |-> FALSE]
    ELSE [error |-> NoError, super_init |-> TRUE]

\* Variant: serializer_class is checked before the type of the mapping.
ViewSetInit_swapped_checks(asg, sc) ==
    IF asg.type \in {"unset", "NoneType"}
    THEN [error |-> ClassDefinitionError("action_serializer_group must be declared."),
          super_init |-> FALSE]
    ELSE IF sc = None
    THEN [error |-> ClassDefinitionError("serializer_class must be declared."),
          super_init |-> FALSE]
    ELSE IF asg.type # "dict"
    THEN [error |-> ClassDefinitionError("action_serializer_group must be a dict."),
          super_init |-> FALSE]
    ELSE [error |-> NoError, super_init |-> TRUE]

\* RIORGenericViewSet.__init__: the three checks in order, then the
\* framework's constructor.
ViewSetInit(asg, sc) ==
    IF asg.type \in {"unset", "NoneType"}
    THEN [error |-> ClassDefinitionError("action_serializer_group must be declared."),
          super_init |-> FALSE]
    ELSE IF asg.type # "dict"
    THEN [error |-> ClassDefinitionError("action_serializer_group must be a dict."),
          super_init |-> FALSE]
    ELSE IF sc = None
    THEN [error |-> ClassDefinitionError("serializer_class must be declared."),
          super_init |-> FALSE]
    ELSE [error |-> NoError, super_init |-> TRUE]

\* Variant: self.action_serializer_group[self.action], a KeyError when the
\* action is not configured.
get_group_subscript(asg, act) ==
    IF act \in DOMAIN asg.items
    THEN [exc |-> "", group |-> <<asg.items[act]>>]
    ELSE [exc |-> "KeyError", group |-> <<>>]

\* Variant: an action that is not configured gets the record of a configured
\* one.
get_group_any_record(asg, act) ==
    [exc |-> "",
     group |-> IF act \in DOMAIN asg.items THEN <<asg.items[act]>>
               ELSE IF DOMAIN asg.items # {}
               THEN <<asg.items[CHOOSE a \in DOMAIN asg.items : TRUE]>>
               ELSE <<>>]

\* RIORGenericViewSet.get_group: dict.get(self.action); the group is a
\* sequence of length 0 (None) or 1.
get_group(asg, act) ==
    [exc |-> "",
     group |-> IF act \in DOMAIN asg.items THEN <<asg.items[act]>> ELSE <<>>]

\* RIORGenericViewSet._get_serializer_class.
_get_serializer_class(asg, sc, act, serializer_type) ==
    LET g == get_group(asg, act) IN
    IF g.exc # "" THEN Raise(g.exc)
    ELSE IF g.group = <<>> THEN Return(sc)
    ELSE Return(getattr(g.group[1], serializer_type, g.group[1].default))

----------------------------------------------------------------------------
Init ==
    /\ action_serializer_group \in GroupAttrs
    /\ serializer_class \in {None, FallbackShape}
    /\ phase = "class"
    /\ super_init = FALSE
    /\ error = NoError
    /\ action = Unbound
    /\ last = [op |-> "none"]
    /\ probe = [op |-> "none"]

\* Instantiating the view.
Construct ==
    /\ phase = "class"
    /\ LET r == ViewSetInit(action_serializer_group, serializer_class) IN
        /\ phase' = IF r.error.type = "" THEN "constructed" ELSE "raised"
        /\ super_init' = r.super_init
        /\ error' = r.error
        /\ last' = [op |-> "__init__"]
    /\ UNCHANGED <<action_serializer_group, serializer_class, action, probe>>

\* The framework's APIView/ViewSetMixin.initialize_request: wraps the raw
\* request into a Request object.
FrameworkInitializeRequest(raw) == [raw |-> raw, parsed |-> TRUE]

\* The framework's APIView.finalize_response: attaches the renderer to the
\* response.
FrameworkFinalizeResponse(request, response) ==
    [response EXCEPT !.rendered = TRUE]

\* RIORGenericViewSet._input_request_pre_processor.
input_request_pre_processor(request) == request

\* Variant: the response body is wrapped in the response shape unless the
\* response carries no content.
output_response_post_processor_wrapping(request, response) ==
    IF response.status = 204 THEN response
    ELSE [response EXCEPT !.data = "response"]

\* RIORGenericViewSet._output_response_post_processor.
output_response_post_processor(request, response) == response

\* RIORGenericViewSet.initialize_request.
initialize_request(raw) ==
    input_request_pre_processor(FrameworkInitializeRequest(raw))

\* RIORGenericViewSet.finalize_response.
finalize_response(request, response) ==
    output_response_post_processor(
        request, FrameworkFinalizeResponse(request, response))

----------------------------------------------------------------------------
\* The five class getters.

get_serializer_class(asg, sc, act) ==
    _get_serializer_class(asg, sc, act, "default")

get_request_serializer_class(asg, sc, act) ==
    _get_serializer_class(asg, sc, act, "request")

get_input_serializer_class(asg, sc, act) ==
    _get_serializer_class(asg, sc, act, "input")

get_output_serializer_class(asg, sc, act) ==
    _get_serializer_class(asg, sc, act, "output")

get_response_serializer_class(asg, sc, act) ==
    _get_serializer_class(asg, sc, act, "response")

\* The getter that serves a role.
RoleGetter(role, asg, sc, act) ==
    CASE role = "default" -> get_serializer_class(asg, sc, act)
      [] role = "request" -> get_request_serializer_class(asg, sc, act)
      [] role = "input" -> get_input_serializer_class(asg, sc, act)
      [] role = "output" -> get_output_serializer_class(asg, sc, act)
      [] role = "response" -> get_response_serializer_class(asg, sc, act)

\* serializer_class(*args, **kwargs): calling None raises TypeError, calling
\* a serializer class gives an instance of it.
Instantiate(r) ==
    IF r.kind = "raise" THEN r
    ELSE IF r.value = None THEN Raise("TypeError")
    ELSE [kind |-> "instance", exc |-> "", value |-> r.value]

\* RIORGenericViewSet.get_request_serializer.
get_request_serializer(asg, sc, act) ==
    Instantiate(get_request_serializer_class(asg, sc, act))

\* RIORGenericViewSet.get_response_serializer.
get_response_serializer(asg, sc, act) ==
    Instantiate(get_response_serializer_class(asg, sc, act))

----------------------------------------------------------------------------
\* RequestResponseAutoSchema. The generator's view is either the
\* RIORGenericViewSet instance or a view of another class with its own
\* serializer.

RiorView == [rior |-> TRUE, serializer |-> None]

PlainViews == {[rior |-> FALSE, serializer |-> p] : p \in Shapes}

\* The base AutoSchema._get_serializer: the view's single generic serializer.
AutoSchemaGetSerializer(view) ==
    [kind |-> "instance", exc |-> "", value |-> view.serializer]

\* RequestResponseAutoSchema.get_request_serializer.
schema_get_request_serializer(view, asg, sc, act) ==
    IF view.rior THEN get_request_serializer(asg, sc, act)
    ELSE AutoSchemaGetSerializer(view)

\* RequestResponseAutoSchema.get_response_serializers.
schema_get_response_serializers(view, asg, sc, act) ==
    IF view.rior THEN get_response_serializer(asg, sc, act)
    ELSE AutoSchemaGetSerializer(view)

----------------------------------------------------------------------------
RawRequests == 1..NumRaw

Statuses == {200, 204}

Responses == [status : Statuses, data : {"output"}, rendered : {FALSE}]

Ready == phase = "constructed" /\ action # Unbound

\* Dispatch of a request: the framework initialises the request and binds
\* the action mapped to the request's method.
InitializeRequest(raw, act) ==
    /\ phase = "constructed"
    /\ action' = act
    /\ last' = [op |-> "initialize_request",
                framework |-> FrameworkInitializeRequest(raw),
                result |-> initialize_request(raw)]
    /\ UNCHANGED <<action_serializer_group, serializer_class, phase,
                   super_init, error, probe>>

\* The end of dispatch.
FinalizeResponse(raw, response) ==
    /\ Ready
    /\ LET request == FrameworkInitializeRequest(raw) IN
       last' = [op |-> "finalize_response",
                framework |-> FrameworkFinalizeResponse(request, response),
                result |-> finalize_response(request, response)]
    /\ UNCHANGED <<action_serializer_group, serializer_class, phase,
                   super_init, error, action, probe>>

\* The record of a call of the getter of a role; replay tells that the kept
\* earlier resolution was of the same action and role.
Resolution(role) ==
    [op |-> "resolve", action |-> action, role |-> role,
     result |-> RoleGetter(role, action_serializer_group, serializer_class,
                           action),
     replay |-> /\ probe.op = "resolve"
                /\ probe.action = action
                /\ probe.role = role]

\* A call of one of the five class getters on the view.
ResolveRole(role) ==
    /\ Ready
    /\ last' = Resolution(role)
    /\ UNCHANGED <<action_serializer_group, serializer_class, phase,
                   super_init, error, action, probe>>

\* Variant: the class resolved by the previous getter call is reused.
ResolveRoleObserved_stale(role) ==
    /\ Ready
    /\ last' = IF last.op = "resolve"
               THEN [Resolution(role) EXCEPT !.result = last.result]
               ELSE Resolution(role)
    /\ probe' \in {probe} \cup (IF probe.op = "none" THEN {last'} ELSE {})
    /\ UNCHANGED <<action_serializer_group, serializer_class, phase,
                   super_init, error, action>>

\* The same call, observed: the first resolution an observer chooses to keep
\* is remembered in probe, to compare later resolutions with.
ResolveRoleObserved(role) ==
    /\ Ready
    /\ last' = Resolution(role)
    /\ probe' \in {probe} \cup (IF probe.op = "none" THEN {last'} ELSE {})
    /\ UNCHANGED <<action_serializer_group, serializer_class, phase,
                   super_init, error, action>>

\* The schema generator asks for the request serializer of its view.
SchemaRequest(view) ==
    /\ view.rior => Ready
    /\ last' = [op |-> "schema_request", view |-> view, action |-> action,
                generic |-> AutoSchemaGetSerializer(view),
                result |-> schema_get_request_serializer(
                    view, action_serializer_group, serializer_class, action)]
    /\ UNCHANGED <<action_serializer_group, serializer_class, phase,
                   super_init, error, action, probe>>

\* The schema generator asks for the response serializer of its view.
SchemaResponse(view) ==
    /\ view.rior => Ready
    /\ last' = [op |-> "schema_response", view |-> view, action |-> action,
                generic |-> AutoSchemaGetSerializer(view),
                result |-> schema_get_response_serializers(
                    view, action_serializer_group, serializer_class, action)]
    /\ UNCHANGED <<action_serializer_group, serializer_class, phase,
                   super_init, error, action, probe>>

Next ==
    \/ Construct
    \/ \E raw \in RawRequests, act \in Actions : InitializeRequest(raw, act)
    \/ \E raw \in RawRequests, response \in Responses :
           FinalizeResponse(raw, response)
    \/ \E role \in Roles : ResolveRole(role)
    \/ \E view \in {RiorView} \cup PlainViews : SchemaRequest(view)
    \/ \E view \in {RiorView} \cup PlainViews : SchemaResponse(view)

Spec == Init /\ [][Next]_vars

\* Role resolutions and request/response hooks only, with an observer that
\* keeps one resolution for comparison.
NextReplay ==
    \/ Construct
    \/ \E raw \in RawRequests, act \in Actions : InitializeRequest(raw, act)
    \/ \E raw \in RawRequests, response \in Responses :
           FinalizeResponse(raw, response)
    \/ \E role \in Roles : ResolveRoleObserved(role)

SpecReplay == Init /\ [][NextReplay]_vars

----------------------------------------------------------------------------
\* Properties.

items == action_serializer_group.items

Configured(act) == act \in DOMAIN items

Resolved == last.op = "resolve"

HookOps == {"initialize_request", "finalize_response"}

\* C1: for an action present in action_serializer_group whose record leaves
\* a role unset (None), resolving that role returns the record's default.
C1_UnsetRoleGivesRecordDefault ==
    (/\ Resolved
     /\ Configured(last.action)
     /\ items[last.action][last.role] = None)
    => last.result = Return(items[last.action].default)

\* C2: on a constructed view, the class resolved for any action and any of
\* the five roles is never None.
C2_ResolvedNeverNone ==
    Resolved => (last.result.kind = "return" /\ last.result.value # None)

\* C3: for an action absent from action_serializer_group (None included),
\* every role resolves to the class-level serializer_class, whatever the
\* records of other actions contain.
C3_AbsentActionGivesClassSerializer ==
    (Resolved /\ ~Configured(last.action))
    => last.result = Return(serializer_class)

\* A role resolved for the None action while another action is configured
\* with a record whose fields all differ from the class-level serializer.
C3_Witness ==
    /\ Resolved
    /\ last.action = NoneAction
    /\ last.role = "input"
    /\ Configured("create")
    /\ \A r \in Roles : items["create"][r] \notin {None, serializer_class}
    /\ last.result = Return(serializer_class)

\* C4: for an action present in action_serializer_group, a role set on the
\* record resolves to exactly that shape, and a role left unset on the same
\* record resolves to the record's default.
C4_SetRoleElseRecordDefault ==
    (Resolved /\ Configured(last.action))
    => LET group == items[last.action] IN
       last.result = Return(IF group[last.role] # None THEN group[last.role]
                            ELSE group.default)

\* C5: constructing a view raises ClassDefinitionError whenever the mapping
\* is missing, is not a dict, or serializer_class is unset; and then the
\* framework's constructor has not run.
C5_BadConfigurationRaises ==
    (/\ phase # "class"
     /\ \/ action_serializer_group.type = "unset"
        \/ action_serializer_group.type # "dict"
        \/ serializer_class = None)
    => (/\ phase = "raised"
        /\ error.type = "ClassDefinitionError"
        /\ ~super_init)

\* Construction refused for the unset serializer_class alone.
C5_Witness ==
    /\ phase = "raised"
    /\ action_serializer_group.type = "dict"
    /\ serializer_class = None
    /\ error.type = "ClassDefinitionError"

C7_HooksPassThrough ==
    /\ [](last.op \in HookOps => last.result = last.framework)
    /\ [][last'.op \in HookOps => UNCHANGED config]_vars

\* finalize_response has returned a no-content response as the framework
\* finalized it.
C7_Witness ==
    /\ last.op = "finalize_response"
    /\ last.result.status = 204
    /\ last.result.rendered
    /\ last.result = last.framework

\* The shape the fallback chain designates for a role of the current action.
RoleShape(act, role) ==
    IF ~Configured(act) THEN serializer_class
    ELSE IF items[act][role] # None THEN items[act][role]
    ELSE items[act].default

SerializerOf(shape) == [kind |-> "instance", exc |-> "", value |-> shape]

\* C8: in the schema generator, for a RIORGenericViewSet the request and
\* response serializers are those of the view's request and response roles
\* for its current action; for any other view both are the base generator's
\* generic serializer.
C8_SchemaUsesRoleShapes ==
    /\ last.op = "schema_request" =>
         last.result = IF last.view.rior
                       THEN SerializerOf(RoleShape(last.action, "request"))
                       ELSE last.generic
    /\ last.op = "schema_response" =>
         last.result = IF last.view.rior
                       THEN SerializerOf(RoleShape(last.action, "response"))
                       ELSE last.generic

\* C9: role resolutions and hook calls leave action_serializer_group, its
\* records and serializer_class unchanged, and resolving the same (action,
\* role) again at any later point gives the same shape.
C9_StaticAndRepeatable ==
    /\ [][last'.op \in HookOps \cup {"resolve"} => UNCHANGED config]_vars
    /\ []((/\ Resolved
           /\ probe.op = "resolve"
           /\ probe.action = last.action
           /\ probe.role = last.role)
          => last.result = probe.result)

\* A role of a configured action resolved again, after the kept resolution
\* of the same action and role, with the same result.
C9_Witness ==
    /\ Resolved
    /\ last.replay
    /\ Configured(last.action)
    /\ last.result = probe.result

\* C10: a dict (empty, or not covering the current action) together with a
\* truthy serializer_class constructs without error and reaches the
\* framework's constructor; when several checks fail, the error is that of
\* the first failing check in the order missing, not a dict, no
\* serializer_class.
C10_RaisesOnlyOnFailedCheckInOrder ==
    phase # "class" =>
       /\ (action_serializer_group.type = "dict" /\ serializer_class # None)
          => (phase = "constructed" /\ super_init /\ error = NoError)
       /\ phase = "raised" =>
            error.message =
               IF action_serializer_group.type \in {"unset", "NoneType"}
               THEN "action_serializer_group must be declared."
               ELSE IF action_serializer_group.type # "dict"
               THEN "action_serializer_group must be a dict."
               ELSE "serializer_class must be declared."

\* A view with an empty mapping constructed, and bound to an action the
\* mapping does not cover.
C10_Witness ==
    /\ phase = "constructed"
    /\ super_init
    /\ items = EmptyDict
    /\ action = "list"

====
